---- MODULE Spec2Model ----
(***************************************************************************)
(* Vocabulary trainer (main.py): the quiz session `practice`, the mistake  *)
(* ledger kept in word_error.txt / translate_errors.txt by `record_errors` *)
(* and `open_errors`, the replay session `error_correction` and the menu   *)
(* loop `main_menu`.                                                       *)
(*                                                                         *)
(* A text is a sequence of one-character strings.  The Cyrillic letters of *)
(* the vocabulary are written as their transliteration followed by an      *)
(* apostrophe ("g'" is one letter), so that no Russian word shares a       *)
(* letter with a Latin one.                                                *)
(***************************************************************************)
EXTENDS Integers, Sequences, FiniteSets, TLC

VARIABLES
  pc,               \* where the process blocks: "hello", "menu", "ask",
                    \* "choice", "corr", "halted", or "test" (unit harness)
  err,              \* the exception that ended the process ("none" if running)
  fs,               \* the working directory: file name -> text
  n_words,          \* practice's parameter russia_words = the first n_words words
  idx,              \* practice: position of the for loop in russia_words
  mark,             \* practice / error_correction: local `mark`
  mark_check,       \* practice: local `mark_check`
  user_choice,      \* practice: local `user_choice`, <<>> while unbound
  passes,           \* practice: iteration number of the `while True` loop
  user_errors,      \* error_correction: lines of word_error.txt
  translate_errors, \* error_correction: lines of translate_errors.txt
  i,                \* error_correction: local `i`
  misses,           \* history: positions missed in the current/last practice
  fs_at_start,      \* history: fs when the current/last practice started
  session,          \* history: "none", "active", "returned" or "aborted"
  verdict,          \* output: the last feedback of the current/last session,
                    \* "right", "wrong", or "none"
  score_out,        \* output: <<n>> for the last score the session printed,
                    \* <<>> before the first
  calls,            \* history: <<eng_word, ru_word>> of each record_errors call
                    \* since the ledger was last empty
  lookups           \* history: <<ru_word, outcome>> of each lookup the unit
                    \* harness made in english_words

vars == <<pc, err, fs, n_words, idx, mark, mark_check, user_choice, passes,
          user_errors, translate_errors, i, misses, fs_at_start,
          session, verdict, score_out, calls, lookups>>

-----------------------------------------------------------------------------
(* Bounds of the model *)

\* a wrong answer is offered only while the ledger has fewer lines than this
MaxLedger == 2
\* a wrong answer is offered only for the first and the last MissSpan words of
\* the list
MissSpan == 1
\* the `while True` loop of practice is followed for at most this many passes
MaxPasses == 2
\* the unit harness issues at most this many record_errors calls
MaxCalls == 3
\* the unit harness makes at most this many lookups in english_words
MaxLookups == 2

-----------------------------------------------------------------------------
(* The vocabulary, main.py:2-14 *)

english_words ==
  <<
    <<<<"g'","o'","r'","o'","d'">>,
      <<"c","i","t","y">>>>,
    <<<<"v'","o'","d'","a'">>,
      <<"w","a","t","e","r">>>>,
    <<<<"m'","e'","t'","r'","o'">>,
      <<"u","n","d","e","r","g","r","o","u","n","d">>>>,
    <<<<"ya'","b'","l'","o'","k'","o'">>,
      <<"a","p","p","l","e">>>>,
    <<<<"s'","e'","m'","soft'","ya'">>,
      <<"f","a","m","i","l","y">>>>,
    <<<<"s'","e'","s'","t'","r'","a'">>,
      <<"s","i","s","t","e","r">>>>,
    <<<<"ch'","a'","j'">>,
      <<"t","e","a">>>>,
    <<<<"m'","a'","t'","e'","m'","a'","t'","i'","k'","a'">>,
      <<"m","a","t","h","s">>>>,
    <<<<"ts'","v'","e'","t'","o'","k'">>,
      <<"f","l","o","w","e","r">>>>,
    <<<<"d'","e'","r'","e'","v'","o'">>,
      <<"t","r","e","e">>>>,
    <<<<"r'","e'","k'","a'">>,
      <<"r","i","v","e","r">>>>,
    <<<<"t'","o'","r'","t'">>,
      <<"c","a","k","e">>>>,
    <<<<"s'","t'","a'","r'","y'","j'">>,
      <<"o","l","d">>>>,
    <<<<"m'","a'","l'","e'","n'","soft'","k'","i'","j'">>,
      <<"s","m","a","l","l">>>>,
    <<<<"k'","o'","t'">>,
      <<"c","a","t">>>>,
    <<<<"m'","ya'","s'","o'">>,
      <<"m","e","a","t">>>>,
    <<<<"b'","a'","n'","k'">>,
      <<"b","a","n","k">>>>,
    <<<<"r'","a'","s'","p'","i'","s'","k'","a'">>,
      <<"n","o","t","e">>>>,
    <<<<"v'","i'","d'","e'","o'">>,
      <<"v","i","d","e","o">>>>,
    <<<<"k'","n'","i'","g'","a'">>,
      <<"b","o","o","k">>>>
  >>

\* list(english_words): the keys in insertion order
russia_words == [k \in 1..Len(english_words) |-> english_words[k][1]]

\* english_words[ru_word]; a missing key raises KeyError
HasKey(ru_word) == \E k \in 1..Len(english_words) : english_words[k][1] = ru_word
\* A lookup that returns the translation of the following entry.
Lookup_next(ru_word) ==
  english_words[((CHOOSE k \in 1..Len(english_words) :
                    english_words[k][1] = ru_word) % Len(english_words)) + 1][2]

Lookup(ru_word) ==
  english_words[CHOOSE k \in 1..Len(english_words) : english_words[k][1] = ru_word][2]

\* english_words[ru_word]: the translation, or KeyError for a missing key
lookup_outcome(ru_word) ==
  IF HasKey(ru_word) THEN <<"found", Lookup(ru_word)>> ELSE <<"KeyError">>

-----------------------------------------------------------------------------
(* Text operations of the Python runtime used by main.py *)

ascii_lowercase ==
  <<"a","b","c","d","e","f","g","h","i","j","k","l","m","n","o","p","q","r","s","t","u","v","w","x","y","z">>
ascii_uppercase ==
  <<"A","B","C","D","E","F","G","H","I","J","K","L","M","N","O","P","Q","R","S","T","U","V","W","X","Y","Z">>

NL == "\n"
Whitespace == {" ", "\t", "\n", "\r", "\f"}
Digits == <<"0","1","2","3","4","5","6","7","8","9">>

\* str.lower() on one character
LowerChar(c) ==
  IF \E k \in 1..Len(ascii_uppercase) : ascii_uppercase[k] = c
  THEN ascii_lowercase[CHOOSE k \in 1..Len(ascii_uppercase) : ascii_uppercase[k] = c]
  ELSE c

\* str.upper() on one character
UpperChar(c) ==
  IF \E k \in 1..Len(ascii_lowercase) : ascii_lowercase[k] = c
  THEN ascii_uppercase[CHOOSE k \in 1..Len(ascii_lowercase) : ascii_lowercase[k] = c]
  ELSE c

\* A lowercasing that leaves the text as it is.
lower_identity(s) == s

lower(s) == [k \in 1..Len(s) |-> LowerChar(s[k])]
upper(s) == [k \in 1..Len(s) |-> UpperChar(s[k])]

\* str.strip(): drop leading and trailing whitespace
strip(s) ==
  LET keep == {k \in 1..Len(s) : s[k] \notin Whitespace}
  IN IF keep = {} THEN <<>>
     ELSE LET lo == CHOOSE k \in keep : \A m \in keep : k <= m
              hi == CHOOSE k \in keep : \A m \in keep : m <= k
          IN SubSeq(s, lo, hi)

\* s.replace("\n", "")
IsNotNL(c) == c # NL

\* A replace that leaves the line terminator in place.
replace_nl_keep(s) == s

replace_nl(s) == SelectSeq(s, IsNotNL)

\* file.readlines() of a text file: the lines, each with its terminator; a
\* last line without terminator is kept when it is not empty
RECURSIVE SplitLines(_, _)
SplitLines(text, line) ==
  IF text = <<>> THEN (IF line = <<>> THEN <<>> ELSE <<line>>)
  ELSE IF Head(text) = NL THEN <<Append(line, NL)>> \o SplitLines(Tail(text), <<>>)
  ELSE SplitLines(Tail(text), Append(line, Head(text)))

readlines(text) == SplitLines(text, <<>>)

\* int(s): optional surrounding whitespace, optional sign, decimal digits with
\* single underscores between them; anything else raises ValueError
DigitVal(c) == (CHOOSE k \in 1..Len(Digits) : Digits[k] = c) - 1
IsDigit(c) == \E k \in 1..Len(Digits) : Digits[k] = c
IntBody(s) ==
  LET t == strip(s)
  IN IF t # <<>> /\ Head(t) \in {"+", "-"} THEN Tail(t) ELSE t
IntOK(s) ==
  LET b == IntBody(s)
  IN /\ b # <<>>
     /\ \A k \in 1..Len(b) : IsDigit(b[k]) \/ b[k] = "_"
     /\ b[1] # "_" /\ b[Len(b)] # "_"
     /\ \A k \in 1..(Len(b) - 1) : ~(b[k] = "_" /\ b[k + 1] = "_")
RECURSIVE DigitsVal(_, _)
DigitsVal(b, acc) ==
  IF b = <<>> THEN acc
  ELSE IF Head(b) = "_" THEN DigitsVal(Tail(b), acc)
  ELSE DigitsVal(Tail(b), 10 * acc + DigitVal(Head(b)))
IntVal(s) ==
  LET t == strip(s)
      v == DigitsVal(IntBody(s), 0)
  IN IF t # <<>> /\ Head(t) = "-" THEN 0 - v ELSE v

-----------------------------------------------------------------------------
(* The mistake ledger, main.py:18-42 *)

WordFile == "word_error.txt"
TranslateFile == "translate_errors.txt"

\* the same write with mode="w": what the file held is lost
truncate_file(f, name, text) ==
  IF name \in DOMAIN f THEN [f EXCEPT ![name] = text]
  ELSE f @@ (name :> text)

\* open(name, mode="a").write(text): the file is created when missing and the
\* text goes after what it already holds
append_file(f, name, text) ==
  IF name \in DOMAIN f THEN [f EXCEPT ![name] = @ \o text]
  ELSE f @@ (name :> text)

\* record_errors with the terminator of the second write forgotten
\* A first write that goes to the log of the Russian words.
write_target_to_source_log(f, eng_word) ==
  append_file(f, TranslateFile, eng_word \o <<NL>>)

\* main.py:20-23  open word_error.txt for append, write eng_word + "\n", close
write_target(f, eng_word) == append_file(f, WordFile, eng_word \o <<NL>>)

\* main.py:27-30  open translate_errors.txt for append, write ru_word + "\n",
\* close
write_source(f, ru_word) == append_file(f, TranslateFile, ru_word \o <<NL>>)

\* A record that writes each word to the other word's log.
record_errors_swapped(f, eng_word, ru_word) ==
  write_source(write_target(f, ru_word), eng_word)

record_errors_no_newline(f, eng_word, ru_word) ==
  LET f1 == append_file(f, WordFile, eng_word \o <<NL>>)
  IN append_file(f1, TranslateFile, ru_word)

\* record_errors(eng_word, ru_word): one line to each log, the English word first
record_errors(f, eng_word, ru_word) ==
  write_source(write_target(f, eng_word), ru_word)

\* open(name, mode="r") raises FileNotFoundError for a missing file
can_open(f, name) == name \in DOMAIN f

\* open_errors(): both files are opened for reading, word_error.txt first
open_errors_raises(f) == ~can_open(f, WordFile) \/ ~can_open(f, TranslateFile)
open_errors(f) == <<readlines(f[WordFile]), readlines(f[TranslateFile])>>

\* the ledger as load() sees it, with a missing file read as no lines
targets(f) == IF can_open(f, WordFile) THEN readlines(f[WordFile]) ELSE <<>>
sources(f) == IF can_open(f, TranslateFile) THEN readlines(f[TranslateFile]) ELSE <<>>

NoFiles == [name \in {} |-> <<>>]

-----------------------------------------------------------------------------
(* Console inputs offered to the program *)

Txt1 == <<"1">>
Txt2 == <<"2">>
Txt3 == <<"3">>
TxtWrong == <<"w","r","o","n","g">>

\* lines typed at the menu prompt
MenuInputs == {Txt1, Txt2, Txt3, <<"0">>, <<"a","b","c">>, <<" ","1">>, <<>>}

\* lines typed for a word whose translation is eng_word: the word itself, the
\* word in capitals between blanks (tests_manual.py:450), and wrong answers
AnswerInputs(eng_word) ==
  {eng_word, <<" ", " ">> \o upper(eng_word) \o <<" ", " ">>, TxtWrong, <<>>}

\* lines typed at the continue/stop prompt
ChoiceInputs == {Txt1, Txt2, Txt3, <<" ","2"," ">>, <<"a","b","c">>, <<>>}

\* lines typed in error_correction for an expected word
CorrInputs(word) ==
  {word, <<" ", " ">> \o upper(word) \o <<" ", " ">>, TxtWrong}

\* the word lists practice is run on: the test list of tests_manual.py:426-429
\* (the first ten words) and the whole vocabulary (main.py:123)
ListLens == {10, Len(russia_words)}

-----------------------------------------------------------------------------
(* The program, main.py:45-123 *)

words == SubSeq(russia_words, 1, n_words)

\* the positions of the list at which the model lets the learner answer wrongly
MayMiss(k) == k <= MissSpan \/ k > n_words - MissSpan

\* the locals of practice and error_correction are gone once the function is left
NoLocals ==
  /\ idx' = 0 /\ mark' = 0 /\ mark_check' = 0 /\ user_choice' = <<>>
  /\ passes' = 0 /\ user_errors' = <<>> /\ translate_errors' = <<>> /\ i' = 0

\* an uncaught exception, or exit(): the process ends
Halt(e) == pc' = "halted" /\ err' = e /\ n_words' = 0 /\ NoLocals

\* the function returns to main_menu's loop, which prompts again
ReturnToMenu == pc' = "menu" /\ err' = err /\ n_words' = n_words /\ NoLocals

\* PracticeStep with line 75 testing `user_choice == 1`: choice 2 breaks the for
\* loop and the while loop runs on
\* A for loop that stops one word short of the list.
PracticeStep_skips_last(m, mc, uc, broke) ==
  IF ~broke /\ idx < n_words - 1
  THEN /\ pc' = "ask" /\ idx' = idx + 1 /\ mark' = m /\ mark_check' = mc
       /\ user_choice' = uc /\ session' = "active"
       /\ UNCHANGED <<err, n_words, passes, user_errors, translate_errors, i>>
  ELSE IF uc = <<>>
  THEN Halt("UnboundLocalError") /\ session' = "aborted"
  ELSE IF uc[1] = 2
  THEN ReturnToMenu /\ session' = "returned"
  ELSE /\ passes < MaxPasses
       /\ n_words > 0
       /\ pc' = "ask" /\ idx' = 1 /\ mark' = 0 /\ mark_check' = mc
       /\ user_choice' = uc /\ passes' = passes + 1 /\ session' = "active"
       /\ UNCHANGED <<err, n_words, user_errors, translate_errors, i>>

PracticeStep_leave_on_1(m, mc, uc, broke) ==
  IF ~broke /\ idx < n_words
  THEN /\ pc' = "ask" /\ idx' = idx + 1 /\ mark' = m /\ mark_check' = mc
       /\ user_choice' = uc /\ session' = "active"
       /\ UNCHANGED <<err, n_words, passes, user_errors, translate_errors, i>>
  ELSE IF uc = <<>>
  THEN Halt("UnboundLocalError") /\ session' = "aborted"
  ELSE IF uc[1] = 1
  THEN ReturnToMenu /\ session' = "returned"
  ELSE /\ passes < MaxPasses
       /\ n_words > 0
       /\ pc' = "ask" /\ idx' = 1 /\ mark' = 0 /\ mark_check' = mc
       /\ user_choice' = uc /\ passes' = passes + 1 /\ session' = "active"
       /\ UNCHANGED <<err, n_words, user_errors, translate_errors, i>>

\* practice, after the body of the for loop ran for words[idx] with the locals
\* m (mark), mc (mark_check), uc (user_choice); broke: the body ended in `break`.
\* Either the next word is prompted, or the for loop is over and line 75 reads
\* user_choice: unbound raises UnboundLocalError, 2 leaves, anything else runs
\* the next pass of `while True` (mark = 0, first word again).
PracticeStep(m, mc, uc, broke) ==
  IF ~broke /\ idx < n_words
  THEN /\ pc' = "ask" /\ idx' = idx + 1 /\ mark' = m /\ mark_check' = mc
       /\ user_choice' = uc /\ session' = "active"
       /\ UNCHANGED <<err, n_words, passes, user_errors, translate_errors, i>>
  ELSE IF uc = <<>>
  THEN Halt("UnboundLocalError") /\ session' = "aborted"
  ELSE IF uc[1] = 2
  THEN ReturnToMenu /\ session' = "returned"
  ELSE /\ passes < MaxPasses
       /\ n_words > 0
       /\ pc' = "ask" /\ idx' = 1 /\ mark' = 0 /\ mark_check' = mc
       /\ user_choice' = uc /\ passes' = passes + 1 /\ session' = "active"
       /\ UNCHANGED <<err, n_words, user_errors, translate_errors, i>>

\* error_correction, at the loop test of line 87 with the locals ue
\* (user_errors), te (translate_errors), k (i), m (mark): lines 88-89 index both
\* lists before the prompt of line 91
CorrStep(ue, te, k, m) ==
  IF k < Len(te)
  THEN IF k >= Len(ue)
       THEN Halt("IndexError")
       ELSE /\ pc' = "corr" /\ user_errors' = ue /\ translate_errors' = te
            /\ i' = k /\ mark' = m
            /\ UNCHANGED <<err, n_words, idx, mark_check, user_choice, passes>>
  ELSE ReturnToMenu

Init ==
  /\ pc = "hello" /\ err = "none" /\ fs = NoFiles /\ n_words = 0
  /\ idx = 0 /\ mark = 0 /\ mark_check = 0 /\ user_choice = <<>> /\ passes = 0
  /\ user_errors = <<>> /\ translate_errors = <<>> /\ i = 0
  /\ misses = <<>> /\ fs_at_start = NoFiles /\ session = "none" /\ calls = <<>>
  /\ lookups = <<>>
  /\ verdict = "none" /\ score_out = <<>>

\* main.py:117-123: the greeting waits for Enter, then the menu runs on a word list
Hello(n) ==
  /\ pc = "hello"
  /\ pc' = "menu" /\ n_words' = n
  /\ UNCHANGED <<err, fs, idx, mark, mark_check, user_choice, passes, user_errors,
                 translate_errors, i, misses, fs_at_start, session, verdict,
                 score_out, calls, lookups>>

\* menu choice "1": practice starts (mark_check = 10, mark = 0, first word)
MenuPractice(inp) ==
  /\ pc = "menu" /\ inp = Txt1
  /\ misses' = <<>> /\ fs_at_start' = fs
  /\ verdict' = "none" /\ score_out' = <<>>
  /\ IF n_words = 0
     THEN Halt("UnboundLocalError") /\ session' = "aborted"
     ELSE /\ pc' = "ask" /\ idx' = 1 /\ mark' = 0 /\ mark_check' = 10
          /\ user_choice' = <<>> /\ passes' = 1 /\ session' = "active"
          /\ UNCHANGED <<err, n_words, user_errors, translate_errors, i>>
  /\ UNCHANGED <<fs, calls, lookups>>

\* menu choice "2": error_correction loads the ledger and prompts its first pair
MenuCorrection(inp) ==
  /\ pc = "menu" /\ inp = Txt2
  /\ IF open_errors_raises(fs)
     THEN Halt("FileNotFoundError")
     ELSE CorrStep(open_errors(fs)[1], open_errors(fs)[2], 0, 0)
  /\ verdict' = "none" /\ score_out' = <<>>
  /\ UNCHANGED <<fs, misses, fs_at_start, session, calls, lookups>>

\* menu choice "3": exit(...)
MenuExit(inp) ==
  /\ pc = "menu" /\ inp = Txt3
  /\ Halt("SystemExit")
  /\ UNCHANGED <<fs, misses, fs_at_start, session, verdict, score_out, calls, lookups>>

\* any other menu line: "unknown command", the menu prompts again
MenuUnknown(inp) ==
  /\ pc = "menu" /\ inp \notin {Txt1, Txt2, Txt3}
  /\ UNCHANGED vars

\* practice, lines 53-76: one answer line for words[idx]
\* A checkpoint that stops one point before the threshold.
at_checkpoint_early(m, mc) == m + 1 = mc

\* A checkpoint that is taken one point after the threshold.
at_checkpoint_late(m, mc) == m = mc + 1

\* main.py:66  "if mark == mark_check:", evaluated after every word.
at_checkpoint(m, mc) == m = mc

AnswerLine(inp) ==
  /\ LET ru_word == words[idx]
         user_input == lower(strip(inp))
         eng_word == Lookup(ru_word)
         hit == user_input = eng_word
         m == IF hit THEN mark + 1 ELSE mark
     IN /\ (~hit) => (MayMiss(idx) /\ Len(targets(fs)) < MaxLedger)
        /\ fs' = IF hit THEN fs ELSE record_errors(fs, eng_word, ru_word)
        /\ misses' = IF hit THEN misses ELSE Append(misses, idx)
        /\ calls' = IF hit THEN calls ELSE Append(calls, <<eng_word, ru_word>>)
        /\ verdict' = IF hit THEN "right" ELSE "wrong"
        /\ IF at_checkpoint(m, mark_check)
           THEN /\ pc' = "choice" /\ mark' = m /\ session' = "active"
                /\ UNCHANGED <<err, n_words, idx, mark_check, user_choice, passes,
                               user_errors, translate_errors, i>>
           ELSE PracticeStep(m, mark_check, user_choice, FALSE)
  /\ UNCHANGED <<fs_at_start, score_out, lookups>>

Answer ==
  /\ pc = "ask"
  /\ \E inp \in AnswerInputs(Lookup(words[idx])) : AnswerLine(inp)

\* practice, lines 68-76: one line at the continue/stop prompt
\* A continue choice that raises the threshold by ten.
raise_mark_check_by_ten(mc) == mc + 10

\* main.py:70  "mark_check = mark_check + 5" on the continue choice.
raise_mark_check(mc) == mc + 5

\* A checkpoint that takes an answer that is no integer as "continue".
Choice_lenient(inp) ==
  /\ pc = "choice"
  /\ IF ~IntOK(inp) \/ IntVal(inp) = 1
     THEN PracticeStep(mark, raise_mark_check(mark_check), <<1>>, FALSE)
     ELSE PracticeStep(mark, mark_check, <<IntVal(inp)>>, TRUE)
  /\ score_out' = <<mark>>
  /\ UNCHANGED <<fs, misses, fs_at_start, verdict, calls, lookups>>

Choice(inp) ==
  /\ pc = "choice"
  /\ IF ~IntOK(inp)
     THEN Halt("ValueError") /\ session' = "aborted"
     ELSE IF IntVal(inp) = 1
     THEN PracticeStep(mark, raise_mark_check(mark_check), <<1>>, FALSE)
     ELSE PracticeStep(mark, mark_check, <<IntVal(inp)>>, TRUE)
  /\ score_out' = IF IntOK(inp) THEN <<mark>> ELSE score_out
  /\ UNCHANGED <<fs, misses, fs_at_start, verdict, calls, lookups>>

\* error_correction, lines 91-98: one answer line for pair i
\* A comparison that normalises the answer the way the quiz does.
corr_hit_normalised(user_answer, user_error) ==
  lower(strip(user_answer)) = user_error

\* main.py:89  "if user_answer == user_error:" on the raw input line.
corr_hit(user_answer, user_error) == user_answer = user_error

\* main.py:86-88  the word shown in the prompt of the pair being asked.
translate_error == replace_nl(translate_errors[i + 1])

\* A correction step that records a wrong answer as a new miss.
CorrAnswerLine_rerecord(inp) ==
  /\ LET user_error == replace_nl(user_errors[i + 1])
         hit == corr_hit(inp, user_error)
         m == IF hit THEN mark + 1 ELSE mark
     IN /\ CorrStep(user_errors, translate_errors, i + 1, m)
        /\ verdict' = IF hit THEN "right" ELSE "wrong"
        /\ score_out' = <<m>>
        /\ fs' = IF hit THEN fs ELSE record_errors(fs, user_error, translate_error)
  /\ UNCHANGED <<misses, fs_at_start, session, calls, lookups>>

CorrAnswerLine(inp) ==
  /\ LET user_error == replace_nl(user_errors[i + 1])
         hit == corr_hit(inp, user_error)
         m == IF hit THEN mark + 1 ELSE mark
     IN /\ CorrStep(user_errors, translate_errors, i + 1, m)
        /\ verdict' = IF hit THEN "right" ELSE "wrong"
        /\ score_out' = <<m>>
  /\ UNCHANGED <<fs, misses, fs_at_start, session, calls, lookups>>

CorrAnswer ==
  /\ pc = "corr"
  /\ \E inp \in CorrInputs(replace_nl(user_errors[i + 1])) : CorrAnswerLine(inp)

\* the program is started again in the same directory
Run ==
  /\ pc = "halted"
  /\ pc' = "hello" /\ err' = "none"
  /\ UNCHANGED <<fs, n_words, idx, mark, mark_check, user_choice, passes,
                 user_errors, translate_errors, i, misses, fs_at_start, session,
                 verdict, score_out, calls, lookups>>

Next ==
  \/ \E n \in ListLens : Hello(n)
  \/ \E inp \in MenuInputs : MenuPractice(inp)
  \/ \E inp \in MenuInputs : MenuCorrection(inp)
  \/ \E inp \in MenuInputs : MenuExit(inp)
  \/ \E inp \in MenuInputs : MenuUnknown(inp)
  \/ Answer
  \/ \E inp \in ChoiceInputs : Choice(inp)
  \/ CorrAnswer
  \/ Run

Spec == Init /\ [][Next]_vars

-----------------------------------------------------------------------------
(* The unit harness of tests_manual.py: record_errors and open_errors are     *)
(* called directly on a directory the test has cleared                        *)

\* the words the tests record ("city", "water", ...) and their sources; any
\* target is recorded with any source (tests_manual.py:318)
TestSources == {russia_words[k] : k \in 1..3}
TestTargets == {Lookup(ru_word) : ru_word \in TestSources}

InitLedger ==
  /\ pc = "test" /\ err = "none" /\ fs = NoFiles /\ n_words = 0
  /\ idx = 0 /\ mark = 0 /\ mark_check = 0 /\ user_choice = <<>> /\ passes = 0
  /\ user_errors = <<>> /\ translate_errors = <<>> /\ i = 0
  /\ misses = <<>> /\ fs_at_start = NoFiles /\ session = "none" /\ calls = <<>>
  /\ lookups = <<>>
  /\ verdict = "none" /\ score_out = <<>>

\* APP.record_errors(eng_word, ru_word)
TestRecord(eng_word, ru_word) ==
  /\ pc = "test"
  /\ Len(calls) < MaxCalls
  /\ fs' = record_errors(fs, eng_word, ru_word)
  /\ calls' = Append(calls, <<eng_word, ru_word>>)
  /\ UNCHANGED <<pc, err, n_words, idx, mark, mark_check, user_choice, passes,
                 user_errors, translate_errors, i, misses, fs_at_start, session,
                 verdict, score_out, lookups>>

\* open_errors(): the two lists, or FileNotFoundError
TestLoad ==
  /\ pc = "test"
  /\ IF open_errors_raises(fs)
     THEN err' = "FileNotFoundError" /\ UNCHANGED <<user_errors, translate_errors>>
     ELSE /\ err' = "none"
          /\ user_errors' = open_errors(fs)[1]
          /\ translate_errors' = open_errors(fs)[2]
  /\ UNCHANGED <<pc, fs, n_words, idx, mark, mark_check, user_choice, passes, i,
                 misses, fs_at_start, session, verdict, score_out, calls, lookups>>

\* a test begins: _remove_error_files() deletes both logs, and the lists the
\* test before it had loaded are gone
TestRemove ==
  /\ pc = "test"
  /\ fs' = NoFiles /\ calls' = <<>> /\ err' = "none"
  /\ user_errors' = <<>> /\ translate_errors' = <<>>
  /\ UNCHANGED <<pc, n_words, idx, mark, mark_check, user_choice, passes, i,
                 misses, fs_at_start, session, verdict, score_out, lookups>>

NextLedger ==
  \/ \E eng_word \in TestTargets, ru_word \in TestSources :
       TestRecord(eng_word, ru_word)
  \/ TestLoad
  \/ TestRemove

SpecLedger == InitLedger /\ [][NextLedger]_vars

-----------------------------------------------------------------------------
(* record_errors write by write: the process may be terminated between the
   write to word_error.txt and the write to translate_errors.txt *)

RecordTarget(eng_word, ru_word) ==
  /\ pc = "test"
  /\ Len(calls) < MaxCalls
  /\ pc' = "writing"
  /\ fs' = write_target(fs, eng_word)
  /\ calls' = Append(calls, <<eng_word, ru_word>>)
  /\ UNCHANGED <<err, n_words, idx, mark, mark_check, user_choice, passes,
                 user_errors, translate_errors, i, misses, fs_at_start, session,
                 verdict, score_out, lookups>>

RecordSource ==
  /\ pc = "writing"
  /\ pc' = "test"
  /\ fs' = write_source(fs, calls[Len(calls)][2])
  /\ UNCHANGED <<err, n_words, idx, mark, mark_check, user_choice, passes,
                 user_errors, translate_errors, i, misses, fs_at_start, session,
                 verdict, score_out, calls, lookups>>

Terminated ==
  /\ pc = "writing"
  /\ pc' = "halted" /\ err' = "Terminated"
  /\ UNCHANGED <<fs, n_words, idx, mark, mark_check, user_choice, passes,
                 user_errors, translate_errors, i, misses, fs_at_start, session,
                 verdict, score_out, calls, lookups>>

NextRecord ==
  \/ \E eng_word \in TestTargets, ru_word \in TestSources :
       RecordTarget(eng_word, ru_word)
  \/ RecordSource
  \/ Terminated

SpecRecord == InitLedger /\ [][NextRecord]_vars

-----------------------------------------------------------------------------
(* Lookups in english_words, with keys of the dictionary and other texts *)

LookupInputs ==
  {russia_words[k] : k \in 1..Len(russia_words)}
  \cup {russia_words[1] \o <<NL>>, english_words[1][2], TxtWrong, <<>>}

TestLookup(ru_word) ==
  /\ pc = "test"
  /\ Len(lookups) < MaxLookups
  /\ lookups' = Append(lookups, <<ru_word, lookup_outcome(ru_word)>>)
  /\ err' = IF HasKey(ru_word) THEN "none" ELSE "KeyError"
  /\ UNCHANGED <<pc, fs, n_words, idx, mark, mark_check, user_choice, passes,
                 user_errors, translate_errors, i, misses, fs_at_start, session,
                 verdict, score_out, calls>>

NextLookup == \E ru_word \in LookupInputs : TestLookup(ru_word)

SpecLookup == InitLedger /\ [][NextLookup]_vars

-----------------------------------------------------------------------------
(* The correction session called on ledger files written beforehand, as
   tests_manual.py does: either file may be missing, and the two files
   may hold different numbers of lines. *)

RECURSIVE JoinLines(_)
JoinLines(ls) ==
  IF ls = <<>> THEN <<>> ELSE ls[1] \o <<NL>> \o JoinLines(Tail(ls))

SeedTexts(ws) ==
  {JoinLines(ls) : ls \in UNION {[1..k -> ws] : k \in 0..MaxLedger}}

SeedLedgers ==
  {NoFiles}
  \cup {WordFile :> t : t \in SeedTexts(TestTargets)}
  \cup {TranslateFile :> t : t \in SeedTexts(TestSources)}
  \cup {(WordFile :> t) @@ (TranslateFile :> u) :
          t \in SeedTexts(TestTargets), u \in SeedTexts(TestSources)}

InitCorrection ==
  /\ pc = "menu" /\ err = "none" /\ fs \in SeedLedgers
  /\ n_words = Len(russia_words)
  /\ idx = 0 /\ mark = 0 /\ mark_check = 0 /\ user_choice = <<>> /\ passes = 0
  /\ user_errors = <<>> /\ translate_errors = <<>> /\ i = 0
  /\ misses = <<>> /\ fs_at_start = NoFiles /\ session = "none" /\ calls = <<>>
  /\ lookups = <<>>
  /\ verdict = "none" /\ score_out = <<>>

NextCorrection ==
  \/ MenuCorrection(Txt2)
  \/ CorrAnswer

SpecCorrection == InitCorrection /\ [][NextCorrection]_vars

-----------------------------------------------------------------------------
(* Properties of the mistake ledger *)

Range(q) == {q[k] : k \in 1..Len(q)}

\* the stored targets with their line terminators stripped
RecordedTargets(f) == {replace_nl(line) : line \in Range(targets(f))}

\* the lines record_errors writes for a sequence of <<eng_word, ru_word>> calls
TargetLines(cs) == [k \in 1..Len(cs) |-> cs[k][1] \o <<NL>>]
SourceLines(cs) == [k \in 1..Len(cs) |-> cs[k][2] \o <<NL>>]

DistinctTargets(cs) ==
  \A a, b \in 1..Len(cs) : a # b => cs[a][1] # cs[b][1]

\* C1: after any sequence of record calls no value appears more than once in
\* targets[] (a target that is already recorded is not written again).
C1_NoDuplicateTargets ==
  \A a, b \in 1..Len(targets(fs)) : a # b => targets(fs)[a] # targets(fs)[b]

C3_RecordOfKnownTargetIsNoOp ==
  [][(/\ Len(calls') = Len(calls) + 1
      /\ calls'[Len(calls')][1] \in RecordedTargets(fs))
       => (targets(fs') = targets(fs) /\ sources(fs') = sources(fs))]_vars

-----------------------------------------------------------------------------
(* Properties of the quiz session *)

\* the pair record_errors is given for the word at position k of the list
MissTarget(k) == Lookup(russia_words[k]) \o <<NL>>
MissSource(k) == russia_words[k] \o <<NL>>

\* the positions of misses, each kept at its first occurrence only
RECURSIVE FirstOccurrences(_)
FirstOccurrences(q) ==
  IF q = <<>> THEN <<>>
  ELSE LET front == FirstOccurrences(SubSeq(q, 1, Len(q) - 1))
           last == q[Len(q)]
       IN IF last \in Range(front) THEN front ELSE Append(front, last)

InSession == pc \in {"ask", "choice"}

\* C4: in a quiz session the pair of every mismatched answer is in the ledger
\* before the next input is read, and stays there: at every later point of the
\* session and at its end, by return or by an abort at a later input, the
\* target of every miss so far is in targets[] with its source at the same
\* index of sources[].
C4_MissesAreRecorded ==
  session # "none" =>
    \A k \in Range(misses) :
      \E j \in 1..Len(targets(fs)) :
        /\ targets(fs)[j] = MissTarget(k)
        /\ j <= Len(sources(fs)) /\ sources(fs)[j] = MissSource(k)

\* C4 witness: a session with a miss was aborted at a later input (a
\* continue/stop answer that is no integer)
C4_Witness ==
  pc = "halted" /\ err = "ValueError" /\ session = "aborted" /\ misses # <<>>

\* C5: a quiz session started on an empty ledger appends exactly the pairs of
\* the distinct words missed, in the order of the misses, and nothing else; a
\* session whose only miss is the first word leaves exactly that word's pair.
C5_OnePairPerDistinctMiss ==
  (session # "none" /\ fs_at_start = NoFiles) =>
    /\ targets(fs) = [k \in 1..Len(FirstOccurrences(misses)) |->
                        MissTarget(FirstOccurrences(misses)[k])]
    /\ sources(fs) = [k \in 1..Len(FirstOccurrences(misses)) |->
                        MissSource(FirstOccurrences(misses)[k])]

\* a first pass over the ten-word list with no miss so far
TenWordsAllRight == n_words = 10 /\ passes = 1 /\ misses = <<>>

\* C6: in a quiz session over 10 distinct words in which every answer matches
\* after normalization, no choice is read before the last word, the score is
\* 10 after the last word and a continue/stop choice is read at that point,
\* and on choice 2 the session returns with the ledger as it was at its start.
C6_TenRightThenStop ==
  /\ [](TenWordsAllRight /\ pc = "ask" => mark = idx - 1 /\ idx <= 10)
  /\ [](TenWordsAllRight /\ pc = "choice" => mark = 10 /\ idx = 10)
  /\ [][(TenWordsAllRight /\ pc = "ask" /\ idx = 10 /\ misses' = <<>>)
          => (pc' = "choice" /\ mark' = 10 /\ fs' = fs_at_start)]_vars
  /\ [][(TenWordsAllRight /\ pc = "choice" /\ (Choice(Txt2) \/ Choice(<<" ", "2", " ">>)))
          => (pc' = "menu" /\ session' = "returned" /\ err' = "none"
              /\ fs' = fs_at_start /\ fs' = fs)]_vars

\* C6 witness: the ten-word session has returned to the menu without a miss
C6_Witness ==
  /\ pc = "menu" /\ session = "returned" /\ n_words = 10
  /\ misses = <<>> /\ fs = fs_at_start

\* C7: at a threshold checkpoint every integer choice other than 1 stops the
\* session: it returns, and no word is presented afterwards.
C7_AnyOtherChoiceStops ==
  [][(pc = "choice" /\ \E inp \in ChoiceInputs :
        IntOK(inp) /\ IntVal(inp) # 1 /\ Choice(inp))
       => (pc' = "menu" /\ session' = "returned")]_vars

\* C8: at a threshold checkpoint choice 1 raises the threshold by exactly 5,
\* leaves the score and the ledger unchanged, and the session prompts the word
\* immediately following the checkpoint word (never an earlier one).
C8_ContinueGoesOn ==
  [][(pc = "choice" /\ Choice(Txt1))
       => /\ mark_check' = mark_check + 5 /\ mark' = mark /\ fs' = fs
          /\ (pc' = "ask" => idx' = idx + 1)]_vars

\* C9: when the word sequence is exhausted without the score ever having
\* equalled the threshold (no choice was read), the session ends normally at
\* that point: it returns without error and reads no choice.
C9_ExhaustedEndsNormally ==
  [][(pc = "ask" /\ idx = n_words /\ user_choice = <<>> /\ pc' # "choice")
       => (pc' = "menu" /\ err' = "none" /\ session' = "returned")]_vars

\* C10: a quiz session makes a single pass over its word sequence: after a
\* word, the next word prompted in the session is the one following it, and
\* the session never starts again from the first word.
C10_SinglePass ==
  [][(InSession /\ pc' = "ask") => (idx' = idx + 1 /\ passes' = 1)]_vars

-----------------------------------------------------------------------------
\* The score a word leaves behind: the feedback of the step says whether the
\* answer was counted.
ScoreAfterWord == IF verdict' = "right" THEN mark + 1 ELSE mark

\* C11: in a quiz session a continue/stop choice is read after a word if and
\* only if the score equals the threshold at that moment; the choice is read
\* nowhere else, and one choice answers one checkpoint.
C11_ChoiceIffScoreIsThreshold ==
  /\ [][pc = "ask" => ((pc' = "choice") <=> (ScoreAfterWord = mark_check))]_vars
  /\ [][pc' = "choice" => (pc = "ask" /\ mark' = mark_check')]_vars
  /\ [][pc = "choice" => pc' # "choice"]_vars

C11_Witness == pc = "choice" /\ mark = 15 /\ mark_check = 15 /\ misses # <<>>

\* C12: within one quiz session the score starts at 0, grows by exactly one on
\* a matching answer and is left alone by a mismatch and by a continue/stop
\* choice, so it never decreases and counts the matching answers of the
\* session.
C12_ScoreCountsMatches ==
  /\ [][(pc = "menu" /\ pc' = "ask") => mark' = 0]_vars
  /\ [][(pc = "ask" /\ InSession') => mark' = ScoreAfterWord]_vars
  /\ [][(pc = "choice" /\ InSession') => mark' = mark]_vars

\* A step that reads the continue choice (1) at a checkpoint.
ContinueChosen == pc = "choice" /\ user_choice' = <<1>>

\* C13: within one quiz session the threshold starts at 10 and changes only by
\* +5 on a continue choice at a checkpoint, so it is always 10 plus five times
\* the continue choices of the session; every new session starts with score 0
\* and threshold 10 whatever earlier sessions did.
C13_ThresholdTenPlusFives ==
  /\ [][(pc = "menu" /\ pc' = "ask") => (mark' = 0 /\ mark_check' = 10)]_vars
  /\ [][(InSession /\ InSession')
          => mark_check' = IF ContinueChosen THEN mark_check + 5
                                             ELSE mark_check]_vars
  /\ [](InSession => (mark_check >= 10 /\ (mark_check - 10) % 5 = 0))

C13_Witness ==
  /\ pc = "ask" /\ mark_check = 15 /\ user_choice = <<1>>
  /\ fs_at_start # NoFiles

-----------------------------------------------------------------------------
(* Properties of the correction session *)

\* The number of complete pairs in the ledger.
LedgerPairs ==
  IF Len(targets(fs)) <= Len(sources(fs)) THEN Len(targets(fs))
                                          ELSE Len(sources(fs))

\* C14: on a ledger whose two logs exist, whatever their lengths, the
\* correction session asks exactly the indices 0 .. min(len(targets),
\* len(sources)) - 1 in order, one input each, and then ends without failure.
C14_ProcessesMinPairs ==
  /\ [][(pc = "menu" /\ ~open_errors_raises(fs))
          => IF LedgerPairs = 0 THEN pc' = "menu" /\ err' = "none"
                                ELSE pc' = "corr" /\ i' = 0]_vars
  /\ [][pc = "corr"
          => IF i + 1 < LedgerPairs THEN pc' = "corr" /\ i' = i + 1
                                    ELSE pc' = "menu" /\ err' = "none"]_vars

\* C15: when the ledger is empty, which includes the case that its files do
\* not exist, the correction session reads no input and ends at once without
\* an error.
C15_EmptyLedgerEndsAtOnce ==
  [][(MenuCorrection(Txt2) /\ targets(fs) = <<>> /\ sources(fs) = <<>>)
       => (pc' = "menu" /\ err' = "none")]_vars

-----------------------------------------------------------------------------
(* Loading the ledger *)

\* C16: loading never fails because a file is missing; a missing target log
\* or source log is read as the empty sequence, whatever the other one holds.
C16_LoadToleratesMissingFiles ==
  [][TestLoad => /\ err' = "none"
                 /\ user_errors' = targets(fs)
                 /\ translate_errors' = sources(fs)]_vars

-----------------------------------------------------------------------------
(* Frame and judgement of the correction session *)

\* C17: the correction session never changes the ledger: whatever the ledger
\* holds and whatever is answered, every step of the session, its start and
\* its end included, leaves both logs as they were.
C17_CorrectionLeavesLedger ==
  [][/\ fs' = fs
     /\ targets(fs') = targets(fs)
     /\ sources(fs') = sources(fs)]_vars

C17_Witness ==
  /\ pc = "menu" /\ verdict = "wrong" /\ score_out = <<1>>
  /\ Len(targets(fs)) = 2 /\ Len(sources(fs)) = 2

\* The answer that counts as right for the pair being asked.
ExpectedAnswer == replace_nl(targets(fs)[i + 1])

\* The score the session printed last, 0 before the first answer.
ScoreSoFar == IF score_out = <<>> THEN 0 ELSE score_out[1]

\* C18: for each pair the correction session asks, the prompt shows the source
\* line without its line terminator, the answer is right if and only if the
\* raw input equals the target line without its line terminator (no trimming,
\* no lowercasing), and the score printed counts exactly those matches.
C18_RawAnswerAgainstTarget ==
  /\ [](pc = "corr" => /\ translate_error = replace_nl(sources(fs)[i + 1])
                       /\ translate_error \o <<NL>> = sources(fs)[i + 1])
  /\ [][pc = "corr" =>
          \A inp \in CorrInputs(ExpectedAnswer) :
            CorrAnswerLine(inp) =>
              /\ (verdict' = "right") <=> (inp = ExpectedAnswer)
              /\ (verdict' = "wrong") <=> (inp # ExpectedAnswer)
              /\ score_out' = <<IF inp = ExpectedAnswer THEN ScoreSoFar + 1
                                                        ELSE ScoreSoFar>>]_vars

C18_Witness ==
  /\ pc = "corr" /\ i = 1 /\ verdict = "right" /\ score_out = <<1>>

-----------------------------------------------------------------------------
(* Judgement of quiz answers and the malformed continue/stop answer *)

\* inp is the word e, in any mix of cases, between runs of whitespace.
MatchesAfterNormalising(inp, e) ==
  \E a \in 0..Len(inp), b \in 0..Len(inp) :
    /\ a + Len(e) + b = Len(inp)
    /\ \A k \in 1..a : inp[k] \in Whitespace
    /\ \A k \in 1..b : inp[Len(inp) + 1 - k] \in Whitespace
    /\ \A k \in 1..Len(e) : LowerChar(inp[a + k]) = e[k]

\* C19: a quiz answer is a match if and only if the input line, trimmed of
\* surrounding whitespace and lowercased, equals the target the vocabulary
\* gives for the presented word; each presented word reads one answer line.
C19_AnswerNormalisedAgainstLookup ==
  /\ [][pc = "ask" =>
          \A inp \in AnswerInputs(Lookup(words[idx])) :
            AnswerLine(inp) =>
              /\ (verdict' = "right")
                   <=> MatchesAfterNormalising(inp, Lookup(words[idx]))
              /\ (verdict' = "wrong")
                   <=> ~MatchesAfterNormalising(inp, Lookup(words[idx]))]_vars
  /\ [][pc = "ask" => ~(pc' = "ask" /\ idx' = idx /\ passes' = passes)]_vars

C19_Witness ==
  /\ pc = "ask" /\ idx = 3 /\ passes = 1 /\ mark = 1
  /\ verdict = "right" /\ Len(misses) = 1

\* The checkpoint answers of the model that are no integers.
NonIntegerChoices == {<<"a", "b", "c">>, <<>>}

\* C20: an answer that is no integer at a threshold checkpoint is fatal: the
\* session aborts there, asks nothing again, presents no further word, and the
\* ledger keeps exactly the entries it held at the checkpoint.
C20_NonIntegerChoiceIsFatal ==
  [][(\E inp \in NonIntegerChoices : Choice(inp))
       => /\ pc' = "halted" /\ err' = "ValueError" /\ session' = "aborted"
          /\ fs' = fs
          /\ targets(fs') = targets(fs) /\ sources(fs') = sources(fs)]_vars

C20_Witness ==
  /\ pc = "halted" /\ err = "ValueError" /\ session = "aborted"
  /\ Len(targets(fs)) = 2 /\ score_out = <<>>

-----------------------------------------------------------------------------
(* The vocabulary *)

\* C21: a lookup returns exactly the configured translation for every word
\* that is a key of the vocabulary, and fails (KeyError) for every text that
\* is not a key; the vocabulary itself is the same mapping at every lookup.
C21_LookupReturnsConfiguredTarget ==
  \A n \in 1..Len(lookups) :
    LET ru_word == lookups[n][1]
        outcome == lookups[n][2]
    IN /\ \A k \in 1..Len(english_words) :
            english_words[k][1] = ru_word
              => outcome = <<"found", english_words[k][2]>>
       /\ (\A k \in 1..Len(english_words) : english_words[k][1] # ru_word)
            => outcome = <<"KeyError">>

C21_Witness ==
  /\ Len(lookups) = 2
  /\ lookups[1] = <<russia_words[2], <<"found", english_words[2][2]>>>>
  /\ lookups[2] = <<russia_words[1] \o <<NL>>, <<"KeyError">>>>

-----------------------------------------------------------------------------
(* Course of the quiz session *)

\* C22: a quiz session never ends before its word list is exhausted except at
\* a threshold checkpoint: the words are presented in list order from the
\* first, and the session leaves the prompts only for a checkpoint or after
\* the last word.
C22_EndsOnlyAtCheckpointOrExhaustion ==
  /\ [][(pc = "menu" /\ pc' = "ask") => idx' = 1]_vars
  /\ [][(pc = "ask" /\ pc' = "ask")
          => \/ idx' = idx + 1
             \/ idx = n_words /\ idx' = 1]_vars
  /\ [][(pc = "ask" /\ pc' \notin {"ask", "choice"}) => idx = n_words]_vars
  /\ [][(InSession /\ ~InSession') => (pc = "choice" \/ idx = n_words)]_vars

C22_Witness ==
  /\ pc = "halted" /\ err = "UnboundLocalError" /\ session = "aborted"
  /\ Len(misses) = 2

-----------------------------------------------------------------------------
(* The two writes of a record call *)

\* C23: a record call writes the target line first and the source line
\* second, as two appends; starting from logs of equal length, at every point
\* in between, a termination between the two writes included, the target log
\* is as long as the source log or one line longer, and after every completed
\* call the two are equally long.
C23_TargetFirstThenSource ==
  /\ [](/\ Len(sources(fs)) <= Len(targets(fs))
        /\ Len(targets(fs)) <= Len(sources(fs)) + 1)
  /\ [](pc = "test" => Len(targets(fs)) = Len(sources(fs)))
  /\ [](pc \in {"writing", "halted"}
          => Len(targets(fs)) = Len(sources(fs)) + 1)
  /\ [][pc' = "writing"
          => /\ targets(fs') = Append(targets(fs), calls'[Len(calls')][1] \o <<NL>>)
             /\ sources(fs') = sources(fs)]_vars
  /\ [][(pc = "writing" /\ pc' = "test")
          => /\ targets(fs') = targets(fs)
             /\ sources(fs') = Append(sources(fs), calls[Len(calls)][2] \o <<NL>>)]_vars

C23_Witness ==
  /\ pc = "halted" /\ err = "Terminated"
  /\ Len(targets(fs)) = 2 /\ Len(sources(fs)) = 1

-----------------------------------------------------------------------------
(* The ledger across sessions *)

IsPrefix(p, q) == Len(p) <= Len(q) /\ SubSeq(q, 1, Len(p)) = p

\* C24: the ledger is append-only across every operation: for every record
\* call, quiz session and correction session, and from one session to the
\* next, the target and source entries that existed before a step are a prefix
\* of those after it.
C24_LedgerIsAppendOnly ==
  /\ [][/\ IsPrefix(targets(fs), targets(fs'))
        /\ IsPrefix(sources(fs), sources(fs'))]_vars
  /\ [](/\ IsPrefix(targets(fs_at_start), targets(fs))
        /\ IsPrefix(sources(fs_at_start), sources(fs)))

C24_Witness ==
  /\ pc = "corr" /\ i = 1
  /\ Len(targets(fs_at_start)) = 1 /\ Len(targets(fs)) = 2
  /\ targets(fs)[1] # targets(fs)[2]

\* C26: at every point of a quiz session the score is at most the threshold;
\* at a checkpoint the two are equal, so the score never passes a threshold
\* whose checkpoint was not taken.
C26_ScoreAtMostThreshold ==
  /\ InSession => mark <= mark_check
  /\ pc = "choice" => mark = mark_check

C26_Witness ==
  /\ pc = "choice" /\ mark = 20 /\ mark_check = 20 /\ idx = 20

-----------------------------------------------------------------------------
(* The menu loop *)

\* A step that ends a quiz session or a correction session.
SessionEnds ==
  \/ pc \in {"ask", "choice", "corr"} /\ pc' \notin {"ask", "choice", "corr"}
  \/ pc = "menu" /\ (MenuPractice(Txt1) \/ MenuCorrection(Txt2))
       /\ pc' \notin {"ask", "choice", "corr"}

\* C25: the menu asks again after any input other than "1", "2" or "3",
\* without starting a session and without touching the ledger; it asks again
\* after a quiz session or a correction session ends; and the program
\* terminates only on the menu choice "3".
C25_MenuLoop ==
  /\ [][\A inp \in MenuInputs \ {Txt1, Txt2, Txt3} :
          MenuUnknown(inp) => (pc' = "menu" /\ fs' = fs /\ err' = "none")]_vars
  /\ [][SessionEnds => pc' = "menu"]_vars
  /\ [][pc' = "halted" => (pc = "halted" \/ MenuExit(Txt3))]_vars

-----------------------------------------------------------------------------
(* Ledger entries and the vocabulary *)

\* C27 (as stated): starting from an empty ledger, after any sequence of quiz
\* and correction sessions over the vocabulary's own word list, the two logs
\* are equally long and looking up the source entry at each index gives the
\* target entry at that index.
C27_LedgerPairsAreVocabularyPairs ==
  /\ Len(targets(fs)) = Len(sources(fs))
  /\ \A k \in 1..Len(sources(fs)) :
       lookup_outcome(sources(fs)[k]) = <<"found", targets(fs)[k]>>

\* C27 (amended): the same, with each entry taken without its line
\* terminator: the logs are equally long and looking up the source entry
\* stripped of its line terminator gives the target entry stripped of its
\* line terminator.
C27_LedgerLinesAreVocabularyPairs ==
  /\ Len(targets(fs)) = Len(sources(fs))
  /\ \A k \in 1..Len(sources(fs)) :
       lookup_outcome(replace_nl(sources(fs)[k]))
         = <<"found", replace_nl(targets(fs)[k])>>

C27_Witness ==
  /\ pc = "menu" /\ session = "returned" /\ score_out = <<2>>
  /\ Len(targets(fs)) = 2 /\ Len(sources(fs)) = 2

-----------------------------------------------------------------------------
(* Replay of recorded misses *)

\* C28: every miss a quiz session recorded into an in-sync ledger is replayed
\* by the next correction session: the session reaches the index of each
\* recorded miss, prompts there with the source word of the miss, and judges
\* an answer equal to the word's vocabulary target correct.
C28_MissesAreReplayed ==
  /\ [][(MenuCorrection(Txt2) /\ calls # <<>>)
          => /\ pc' = "corr" /\ i' = 0
             /\ Len(user_errors') = Len(calls)
             /\ Len(translate_errors') = Len(calls)]_vars
  /\ [](pc = "corr"
          => /\ i < Len(calls)
             /\ translate_error = calls[i + 1][2]
             /\ corr_hit(Lookup(calls[i + 1][2]), replace_nl(user_errors[i + 1])))
  /\ [][pc = "corr"
          => /\ CorrAnswerLine(Lookup(calls[i + 1][2])) => verdict' = "right"
             /\ \/ pc' = "corr" /\ i' = i + 1
                \/ pc' = "menu" /\ i + 1 = Len(calls)]_vars

C28_Witness ==
  /\ pc = "corr" /\ i = 1 /\ verdict = "right" /\ score_out = <<1>>
  /\ Len(calls) = 2 /\ calls[1] # calls[2]

====
